---- MODULE Spec2Model ----
(***************************************************************************)
(* Contact form of the landing page (src/src/App.tsx): the validation      *)
(* schema, the phone mask and the submit workflow of ContactForm.          *)
(*                                                                         *)
(* Text typed by the user is a sequence of one-character strings, so that  *)
(* lengths, digits and separators are what the code sees.  A JavaScript    *)
(* object is a function; a property that is absent (undefined) is a key    *)
(* that is not in the function's DOMAIN.                                   *)
(***************************************************************************)
EXTENDS Integers, Sequences, FiniteSets, TLC

VARIABLES
    record,        \* form values held by useForm (lines 124-134)
    errors,        \* formState.errors as the latest handleSubmit or reset left it
    isSubmitting,  \* useState flag (line 122); the button's disabled prop
    pc,            \* per submit attempt: where handleSubmit/onSubmit stands
    data,          \* per attempt: the values handleSubmit took at the event
    req,           \* per attempt: the body of the POST in flight
    resp,          \* per attempt: what the network answered
    window,        \* the global object; dataLayer may be absent
    toasts,        \* notifications shown by toast(), oldest first
    console,       \* the latest console entry
    env,           \* import.meta.env
    now,           \* the clock read by new Date()
    cand,          \* candidate object handed to the schema
    result,        \* issues the schema reported for cand
    value,         \* e.target.value of the phone input
    formatted      \* what the phone field stores for it

formVars == <<record, errors, isSubmitting, pc, data, req, resp, window, toasts, console, env, now>>
valVars == <<cand, result>>
fmtVars == <<value, formatted>>
vars == <<record, errors, isSubmitting, pc, data, req, resp, window, toasts, console, env, now,
          cand, result, value, formatted>>

-----------------------------------------------------------------------------
(* Bounds of the model *)

\* submit events accepted in one behaviour
MaxSubmits == 2
\* digits in the longest text pasted into the phone input
MaxDigits == 13

-----------------------------------------------------------------------------
(* Text helpers *)

Empty == <<>>

Rep(c, n) == [i \in 1..n |-> c]

DigitChars == {"0", "1", "2", "3", "4", "5", "6", "7", "8", "9"}

IsDigit(c) == c \in DigitChars

Slice(s, from, to) ==
    \* String.prototype.slice(from, to) with 0 <= from, zero-based, end exclusive
    SubSeq(s, from + 1, IF to < Len(s) THEN to ELSE Len(s))

Has(obj, key) == key \in DOMAIN obj

Truthy(obj, key) == Has(obj, key) /\ obj[key] # Empty

-----------------------------------------------------------------------------
(* Validation schema (lines 100-117) *)

Seps == {"-", ".", " "}

phoneRegex(s) ==
    \* /^\(?([0-9]{2})\)?[-. ]?([0-9]{4,5})[-. ]?([0-9]{4})$/
    \E open, close, sep1, sep2 \in {0, 1}, k \in {4, 5} :
        LET a == open + 2           \* end of the area code
            b == a + close + sep1   \* end of the first separator
            c == b + k + sep2       \* end of the second separator
        IN  /\ Len(s) = c + 4
            /\ open = 1 => s[1] = "("
            /\ \A i \in (open + 1)..a : IsDigit(s[i])
            /\ close = 1 => s[a + 1] = ")"
            /\ sep1 = 1 => s[b] \in Seps
            /\ \A i \in (b + 1)..(b + k) : IsDigit(s[i])
            /\ sep2 = 1 => s[c] \in Seps
            /\ \A i \in (c + 1)..(c + 4) : IsDigit(s[i])

MinNameLen == 3
MaxNameLen == 100
MaxEmailLen == 255
MinProjectTypeLen == 1
MinMessageLen == 20
MaxMessageLen == 1000

MsgName == "Nome deve ter no minimo 3 caracteres"
MsgEmail == "E-mail invalido"
MsgPhone == "Telefone invalido. Use o formato (00) 00000-0000"
MsgProjectType == "Selecione um tipo de projeto"
MsgMessage == "A mensagem deve ter no minimo 20 caracteres"
MsgOther == "Por favor, especifique o tipo de projeto"
MsgTooLong == "String must contain at most N character(s)"

Residencial == <<"r", "e", "s", "i", "d", "e", "n", "c", "i", "a", "l">>
Comercial == <<"c", "o", "m", "e", "r", "c", "i", "a", "l">>
Industrial == <<"i", "n", "d", "u", "s", "t", "r", "i", "a", "l">>
Reformas == <<"r", "e", "f", "o", "r", "m", "a", "s">>
Outros == <<"o", "u", "t", "r", "o", "s">>

\* the values the Select offers (lines 287-303)
SelectItems == {Residencial, Comercial, Industrial, Reformas, Outros}

emailShape(s) ==
    \* z.string().email(): one "@", a local part, dot-separated domain labels,
    \* a last label of two letters or more
    LET ats == {i \in 1..Len(s) : s[i] = "@"}
        dots == {i \in 1..Len(s) : s[i] = "."}
    IN  /\ Cardinality(ats) = 1
        /\ LET at == CHOOSE i \in ats : TRUE
               domDots == {i \in dots : i > at}
           IN  /\ at > 1
               /\ s[1] # "."
               /\ s[at - 1] # "."
               /\ \A i \in dots : (i + 1) \notin dots
               /\ domDots # {}
               /\ (at + 1) \notin dots
               /\ \A i \in domDots : i <= Len(s) - 2
               /\ \A i \in 1..Len(s) : s[i] \notin {" ", "(", ")"}

nameRule(d) ==
    \* z.string().min(3, ...).max(100)
    (IF Len(d.name) < MinNameLen THEN <<MsgName>> ELSE <<>>)
    \o (IF Len(d.name) > MaxNameLen THEN <<MsgTooLong>> ELSE <<>>)

emailRule(d) ==
    \* z.string().email(...).max(255)
    (IF ~emailShape(d.email) THEN <<MsgEmail>> ELSE <<>>)
    \o (IF Len(d.email) > MaxEmailLen THEN <<MsgTooLong>> ELSE <<>>)

phoneRule(d) ==
    \* z.string().regex(phoneRegex, ...)
    IF ~phoneRegex(d.phone) THEN <<MsgPhone>> ELSE <<>>

projectTypeRuleEnum(d) ==
    IF d.projectType \notin SelectItems THEN <<MsgProjectType>> ELSE <<>>

projectTypeRule(d) ==
    \* z.string().min(1, ...)
    IF Len(d.projectType) < MinProjectTypeLen THEN <<MsgProjectType>> ELSE <<>>

messageRule(d) ==
    \* z.string().min(20, ...).max(1000)
    (IF Len(d.message) < MinMessageLen THEN <<MsgMessage>> ELSE <<>>)
    \o (IF Len(d.message) > MaxMessageLen THEN <<MsgTooLong>> ELSE <<>>)

refineAlwaysPasses(d) == TRUE

refineIgnoresProjectType(d) == Truthy(d, "otherProjectType")

refine(d) ==
    \* the callback of .refine(): FALSE reports an issue
    IF d.projectType = Outros /\ ~Truthy(d, "otherProjectType") THEN FALSE ELSE TRUE

otherProjectTypeRule(d) ==
    \* z.string().optional() has no check of its own; the refinement's issue
    \* is reported at path ['otherProjectType']
    IF ~refine(d) THEN <<MsgOther>> ELSE <<>>

Fields == {"name", "email", "phone", "projectType", "otherProjectType", "message"}

issues(f, d) ==
    \* the issues the schema reports at path [f]
    CASE f = "name" -> nameRule(d)
      [] f = "email" -> emailRule(d)
      [] f = "phone" -> phoneRule(d)
      [] f = "projectType" -> projectTypeRule(d)
      [] f = "otherProjectType" -> otherProjectTypeRule(d)
      [] f = "message" -> messageRule(d)

zodResolver(d) ==
    \* the errors object of the resolver: the first issue of each failing path
    [f \in {g \in Fields : issues(g, d) # <<>>} |-> Head(issues(f, d))]

NoErrors == [f \in {} |-> ""]

-----------------------------------------------------------------------------
(* Phone mask (lines 138-144) *)

numbersOf(v) == SelectSeq(v, IsDigit)

formatPhoneNumberNoTruncate(v) ==
    LET numbers == numbersOf(v)
    IN  IF Len(numbers) <= 2 THEN numbers
        ELSE IF Len(numbers) <= 6
             THEN <<"(">> \o Slice(numbers, 0, 2) \o <<")", " ">> \o Slice(numbers, 2, Len(numbers))
        ELSE IF Len(numbers) <= 10
             THEN <<"(">> \o Slice(numbers, 0, 2) \o <<")", " ">> \o Slice(numbers, 2, 6)
                  \o <<"-">> \o Slice(numbers, 6, Len(numbers))
        ELSE <<"(">> \o Slice(numbers, 0, 2) \o <<")", " ">> \o Slice(numbers, 2, 7)
             \o <<"-">> \o Slice(numbers, 7, Len(numbers))

formatPhoneNumber(v) ==
    LET numbers == numbersOf(v)   \* value.replace(/\D/g, '')
    IN  IF Len(numbers) <= 2 THEN numbers
        ELSE IF Len(numbers) <= 6
             THEN <<"(">> \o Slice(numbers, 0, 2) \o <<")", " ">> \o Slice(numbers, 2, Len(numbers))
        ELSE IF Len(numbers) <= 10
             THEN <<"(">> \o Slice(numbers, 0, 2) \o <<")", " ">> \o Slice(numbers, 2, 6)
                  \o <<"-">> \o Slice(numbers, 6, Len(numbers))
        ELSE <<"(">> \o Slice(numbers, 0, 2) \o <<")", " ">> \o Slice(numbers, 2, 7)
             \o <<"-">> \o Slice(numbers, 7, 11)

-----------------------------------------------------------------------------
(* ContactForm state (lines 121-136) *)

\* a submit attempt is one call of the handler made by form.handleSubmit
Attempts == 1..MaxSubmits

defaultValues ==
    [name |-> Empty, email |-> Empty, phone |-> Empty, projectType |-> Empty,
     otherProjectType |-> Empty, message |-> Empty]

WebhookUrlKey == "VITE_N8N_WEBHOOK_URL"

\* what a build may hold for the setting: absent, empty, or a URL
Environments ==
    {[k \in {} |-> Empty],
     [k \in {WebhookUrlKey} |-> Empty],
     [k \in {WebhookUrlKey} |-> <<"h", "t", "t", "p", "s", ":", "/", "/", "n", "8", "n">>]}

NoData == [k \in {} |-> Empty]
NoReq == [k \in {} |-> Empty]
NoResp == [kind |-> "none"]
NoLog == [level |-> "none"]

\* text the user enters in the model
NameInputs == {Empty, <<"A", "n", "a">>}
EmailInputs == {Empty, <<"a", "@", "e", "x", ".", "c", "o">>}
PhoneInputs == {Empty, <<"1", "1", "9", "8", "7", "6", "5", "4", "3", "2", "1">>}
OtherInputs == {Empty, <<"g", "a", "l", "p", "a", "o">>}
MessageInputs == {Empty, Rep("m", MinMessageLen)}
SelectInputs == {Residencial, Outros}

\* HTTP statuses the webhook answers with in the model
Statuses == {200, 500}

FormInit ==
    /\ record = defaultValues
    /\ errors = NoErrors
    /\ isSubmitting = FALSE
    /\ pc = [a \in Attempts |-> "idle"]
    /\ data = [a \in Attempts |-> NoData]
    /\ req = [a \in Attempts |-> NoReq]
    /\ resp = [a \in Attempts |-> NoResp]
    /\ window = [k \in {} |-> <<>>]     \* no dataLayer yet
    /\ toasts = <<>>
    /\ console = NoLog
    /\ env \in Environments
    /\ now = 0

\* Promise jobs are queued: the resolver's answer to handleSubmit, or the
\* continuation of onSubmit after fetch settled.  They run before the next
\* task, so no user input or network event is handled meanwhile.
validationPending == \E a \in Attempts : pc[a] = "validating"
continuationPending == \E a \in Attempts : pc[a] = "responded"
jobsPending == validationPending \/ continuationPending

-----------------------------------------------------------------------------
(* Field edits (lines 215-346).  The library's re-validation of a changed   *)
(* field is not in the source and is not modelled: errors changes only     *)
(* when handleSubmit or reset writes it.                                   *)

onChange(f, v) ==
    /\ ~jobsPending
    /\ record' = [record EXCEPT ![f] = v]
    /\ UNCHANGED <<errors, isSubmitting, pc, data, req, resp, window, toasts,
                   console, env, now>>

ChangeName(v) == onChange("name", v)

ChangeEmail(v) == onChange("email", v)

\* onChange of the phone input stores the masked text (lines 263-266)
ChangePhone(v) == onChange("phone", formatPhoneNumber(v))

SelectProjectType(v) == onChange("projectType", v)

ChangeOtherProjectType(v) ==
    \* the field is rendered only while 'outros' is selected (line 310)
    /\ record.projectType = Outros
    /\ onChange("otherProjectType", v)

ChangeMessage(v) == onChange("message", v)

-----------------------------------------------------------------------------
(* Submit workflow (lines 146-209, 214, 348-354) *)

SuccessToast ==
    [title |-> "Mensagem enviada com sucesso!",
     description |-> "Entraremos em contato em breve.",
     className |-> "bg-green-600 text-white border-green-700"]

ErrorToast ==
    [title |-> "Erro ao enviar mensagem",
     description |-> "Por favor, tente novamente mais tarde.",
     variant |-> "destructive"]

SourceTag == "Landing Page 4ME Engenharia"

submitDisabled == isSubmitting   \* disabled={isSubmitting}

webhookProjectTypeRaw(d) == d.projectType

webhookProjectType(d) ==
    IF d.projectType = Outros /\ Truthy(d, "otherProjectType")
    THEN d.otherProjectType
    ELSE d.projectType

webhookData(d, t) ==
    [name |-> d.name, email |-> d.email, phone |-> d.phone,
     projectType |-> webhookProjectType(d), message |-> d.message,
     timestamp |-> t, source |-> SourceTag]

urlMissingOnlyUndefined(e) == ~Has(e, WebhookUrlKey)

urlMissing(e) == ~Truthy(e, WebhookUrlKey)   \* !webhookUrl

responseOkAlways(status) == TRUE

responseOk(status) == status \in 200..299   \* response.ok

dataLayerPush(w) ==
    \* window.dataLayer = window.dataLayer || []; window.dataLayer.push({...})
    [k \in DOMAIN w \cup {"dataLayer"} |->
        IF k = "dataLayer"
        THEN Append(IF Has(w, "dataLayer") THEN w.dataLayer ELSE <<>>,
                    [event |-> "form_lead_success"])
        ELSE w[k]]

formResetKeepsValues(r) == r

formReset(r) == defaultValues   \* form.reset()

afterFinallyMissing(flag) == flag

afterFinally(flag) == FALSE   \* setIsSubmitting(false)

ErrConfig == [message |-> "VITE_N8N_WEBHOOK_URL nao configurada"]
ErrStatus(status) == [message |-> "Erro no webhook", status |-> status]
ErrNetwork == [message |-> "Failed to fetch"]

FirstIdle == CHOOSE a \in Attempts : pc[a] = "idle" /\ \A b \in Attempts : pc[b] = "idle" => a <= b

SubmitEvent ==
    \* the form's submit event: handleSubmit takes the values and starts
    \* validating.  It may be dispatched again while a resolver answer is
    \* pending (requestSubmit(), a synthetic event in the same task).
    /\ ~submitDisabled
    /\ ~continuationPending
    /\ now < MaxSubmits
    /\ LET a == FirstIdle
       IN  /\ pc' = [pc EXCEPT ![a] = "validating"]
           /\ data' = [data EXCEPT ![a] = record]
    /\ now' = now + 1
    /\ UNCHANGED <<record, errors, isSubmitting, req, resp, window, toasts,
                   console, env>>

HandleSubmitInvalid(a) ==
    \* the resolver reports errors: onSubmit is not called
    /\ pc[a] = "validating"
    /\ zodResolver(data[a]) # NoErrors
    /\ errors' = zodResolver(data[a])
    /\ pc' = [pc EXCEPT ![a] = "idle"]
    /\ data' = [data EXCEPT ![a] = NoData]
    /\ UNCHANGED <<record, isSubmitting, req, resp, window, toasts, console, env, now>>

Caught(a, error, flag) ==
    \* catch and finally of onSubmit (lines 199-208), then handleSubmit returns
    /\ console' = [level |-> "error", text |-> "Erro ao enviar formulario:", error |-> error]
    /\ toasts' = Append(toasts, ErrorToast)
    /\ isSubmitting' = afterFinally(flag)
    /\ pc' = [pc EXCEPT ![a] = "idle"]
    /\ data' = [data EXCEPT ![a] = NoData]
    /\ req' = [req EXCEPT ![a] = NoReq]
    /\ resp' = [resp EXCEPT ![a] = NoResp]
    /\ UNCHANGED <<record, window, env, now>>

OnSubmit(a) ==
    \* the resolver reports no error: onSubmit runs up to its first await
    /\ pc[a] = "validating"
    /\ zodResolver(data[a]) = NoErrors
    /\ errors' = NoErrors
    /\ IF urlMissing(env)
       THEN Caught(a, ErrConfig, TRUE)
       ELSE /\ isSubmitting' = TRUE
            /\ console' = [level |-> "log", text |-> "Enviando dados para webhook:"]
            /\ req' = [req EXCEPT ![a] =
                        [url |-> env[WebhookUrlKey], method |-> "POST",
                         contentType |-> "application/json",
                         body |-> webhookData(data[a], now)]]
            /\ pc' = [pc EXCEPT ![a] = "fetching"]
            /\ UNCHANGED <<record, data, resp, window, toasts, env, now>>

FetchResolves(a, status, json) ==
    \* the webhook answers the POST; json tells whether the body parses as JSON
    /\ ~jobsPending
    /\ pc[a] = "fetching"
    /\ resp' = [resp EXCEPT ![a] = [kind |-> "response", status |-> status, json |-> json]]
    /\ pc' = [pc EXCEPT ![a] = "responded"]
    /\ UNCHANGED <<record, errors, isSubmitting, data, req, window, toasts,
                   console, env, now>>

FetchRejects(a) ==
    \* network error: the promise of fetch rejects
    /\ ~jobsPending
    /\ pc[a] = "fetching"
    /\ resp' = [resp EXCEPT ![a] = [kind |-> "rejected"]]
    /\ pc' = [pc EXCEPT ![a] = "responded"]
    /\ UNCHANGED <<record, errors, isSubmitting, data, req, window, toasts,
                   console, env, now>>

AfterFetch(a) ==
    \* onSubmit resumes after await fetch (lines 172-184)
    /\ pc[a] = "responded"
    /\ IF resp[a].kind = "rejected"
       THEN Caught(a, ErrNetwork, isSubmitting)
       ELSE IF ~responseOk(resp[a].status)
       THEN Caught(a, ErrStatus(resp[a].status), isSubmitting)
       ELSE /\ pc' = [pc EXCEPT ![a] = "parsing"]
            /\ UNCHANGED <<record, isSubmitting, data, req, resp, window,
                           toasts, console, env, now>>
    /\ UNCHANGED errors

JsonSettles(a) ==
    \* response.json() settles either way (its rejection is caught, line 184);
    \* then lines 187-198, the finally, and handleSubmit returns
    /\ ~jobsPending
    /\ pc[a] = "parsing"
    /\ console' = [level |-> "log", text |-> "Resposta do webhook:",
                   body |-> IF resp[a].json THEN "json" ELSE "Sem resposta JSON"]
    /\ window' = dataLayerPush(window)
    /\ toasts' = Append(toasts, SuccessToast)
    /\ record' = formReset(record)
    /\ errors' = NoErrors
    /\ isSubmitting' = afterFinally(isSubmitting)
    /\ pc' = [pc EXCEPT ![a] = "idle"]
    /\ data' = [data EXCEPT ![a] = NoData]
    /\ req' = [req EXCEPT ![a] = NoReq]
    /\ resp' = [resp EXCEPT ![a] = NoResp]
    /\ UNCHANGED <<env, now>>

pureVars == <<cand, result, value, formatted>>

Next ==
    \/ (\E v \in NameInputs : ChangeName(v)) /\ UNCHANGED pureVars
    \/ (\E v \in EmailInputs : ChangeEmail(v)) /\ UNCHANGED pureVars
    \/ (\E v \in PhoneInputs : ChangePhone(v)) /\ UNCHANGED pureVars
    \/ (\E v \in SelectInputs : SelectProjectType(v)) /\ UNCHANGED pureVars
    \/ (\E v \in OtherInputs : ChangeOtherProjectType(v)) /\ UNCHANGED pureVars
    \/ (\E v \in MessageInputs : ChangeMessage(v)) /\ UNCHANGED pureVars
    \/ SubmitEvent /\ UNCHANGED pureVars
    \/ (\E a \in Attempts : HandleSubmitInvalid(a)) /\ UNCHANGED pureVars
    \/ (\E a \in Attempts : OnSubmit(a)) /\ UNCHANGED pureVars
    \/ (\E a \in Attempts, status \in Statuses, json \in BOOLEAN :
            FetchResolves(a, status, json)) /\ UNCHANGED pureVars
    \/ (\E a \in Attempts : FetchRejects(a)) /\ UNCHANGED pureVars
    \/ (\E a \in Attempts : AfterFetch(a)) /\ UNCHANGED pureVars
    \/ (\E a \in Attempts : JsonSettles(a)) /\ UNCHANGED pureVars

NotParsed == [ran |-> FALSE, errors |-> NoErrors]

Init ==
    /\ FormInit
    /\ cand = defaultValues /\ result = NotParsed
    /\ value = Empty /\ formatted = Empty

\* the form: edits, submit events, network answers
Spec == Init /\ [][Next]_vars

-----------------------------------------------------------------------------
(* The schema as a function of the object it is given *)

ValNames ==
    {Rep("n", MinNameLen - 1), Rep("n", MinNameLen), Rep("n", MaxNameLen),
     Rep("n", MaxNameLen + 1)}

ValEmails ==
    {<<"a", "@", "e", "x", ".", "c", "o">>,
     <<"a", ".", "e", "x", ".", "c", "o">>,
     Rep("a", MaxEmailLen - 5) \o <<"@", "e", "x", ".", "c", "o">>}

ValPhones ==
    {<<"(", "1", "1", ")", " ", "9", "8", "7", "6", "5", "-", "4", "3", "2", "1">>,
     <<"(", "1", "1", ")", " ", "3", "8", "7", "6", "-", "4", "3", "2", "1">>,
     <<"1", "1", "9", "8", "7", "6", "5", "4", "3", "2", "1">>,
     <<"(", "1", "1", ")", " ", "9", "8", "7", "-", "4", "3", "2", "1">>}

ValProjectTypes == SelectItems \cup {Empty, <<"x", "y", "z">>}

ValOthers == {Empty, <<"g", "a", "l", "p", "a", "o">>}

ValMessages ==
    {Rep("m", MinMessageLen - 1), Rep("m", MinMessageLen), Rep("m", MaxMessageLen),
     Rep("m", MaxMessageLen + 1)}

formIdle == UNCHANGED <<record, errors, isSubmitting, pc, data, req, resp, window,
                        toasts, console, env, now>>

ValuesOf(f) ==
    CASE f = "name" -> ValNames
      [] f = "email" -> ValEmails
      [] f = "phone" -> ValPhones
      [] f = "projectType" -> ValProjectTypes
      [] f = "otherProjectType" -> ValOthers
      [] f = "message" -> ValMessages

SafeParse ==
    \* contactFormSchema applied to cand
    /\ ~result.ran
    /\ result' = [ran |-> TRUE, errors |-> zodResolver(cand)]
    /\ UNCHANGED <<cand, value, formatted>>
    /\ formIdle

Assign(f, v) ==
    \* another object: cand with property f set to v
    /\ cand' = [g \in DOMAIN cand \cup {f} |-> IF g = f THEN v ELSE cand[g]]
    /\ result' = NotParsed
    /\ UNCHANGED <<value, formatted>>
    /\ formIdle

Omit ==
    \* another object: cand without the optional property
    /\ Has(cand, "otherProjectType")
    /\ cand' = [g \in DOMAIN cand \ {"otherProjectType"} |-> cand[g]]
    /\ result' = NotParsed
    /\ UNCHANGED <<value, formatted>>
    /\ formIdle

ValInit ==
    /\ FormInit /\ ~Has(env, WebhookUrlKey)
    /\ cand = defaultValues /\ result = NotParsed
    /\ value = Empty /\ formatted = Empty

ValNext ==
    \/ SafeParse
    \/ \E f \in Fields : \E v \in ValuesOf(f) : Assign(f, v)
    \/ Omit

ValSpec == ValInit /\ [][ValNext]_vars

-----------------------------------------------------------------------------
(* The phone input as a function of what is typed or pasted into it *)

PhoneMaxLength == 15   \* maxLength={15}

DigitString == <<"0", "1", "2", "3", "4", "5", "6", "7", "8", "9">>

\* the i-th digit of the pasted number: 1, 8, 5, 2, 9, 6, 3, 0, 7, 4, 1, ...
Digit(i) == DigitString[((i * 7 - 6) % 10) + 1]

Noise == <<"(", ")", " ", "-", "x", ".">>

Plain(n) == [i \in 1..n |-> Digit(i)]

\* the same digits, each followed by a character that is no digit
Noisy(n) ==
    [i \in 1..(2 * n) |->
        IF i % 2 = 1 THEN Digit((i + 1) \div 2) ELSE Noise[((i \div 2) % Len(Noise)) + 1]]

PasteInputs == {Plain(n) : n \in 0..MaxDigits} \cup {Noisy(n) : n \in 0..MaxDigits}

Keys == {"1", "9", "x"}

phoneOnChange(v) ==
    \* lines 263-266: the field stores formatPhoneNumber(e.target.value)
    /\ value' = v
    /\ formatted' = formatPhoneNumber(v)
    /\ UNCHANGED <<cand, result>>
    /\ formIdle

Type(c) ==
    \* a key pressed at the end of the shown text
    /\ Len(formatted) < PhoneMaxLength
    /\ phoneOnChange(Append(formatted, c))

Backspace ==
    /\ formatted # Empty
    /\ phoneOnChange(SubSeq(formatted, 1, Len(formatted) - 1))

Paste(v) == phoneOnChange(v)

FmtInit ==
    /\ FormInit /\ ~Has(env, WebhookUrlKey)
    /\ cand = defaultValues /\ result = NotParsed
    /\ value = Empty /\ formatted = Empty

FmtNext ==
    \/ \E c \in Keys : Type(c)
    \/ Backspace
    \/ \E v \in PasteInputs : Paste(v)

FormatSpec == FmtInit /\ [][FmtNext]_vars

-----------------------------------------------------------------------------
(* Properties *)

Last(q) == q[Len(q)]

\* onSubmit of attempt a has issued its POST and has not returned
InFlight(a) == pc[a] \in {"fetching", "responded", "parsing"}

\* a step in which attempt a leaves position p
Leaves(a, p) == pc[a] = p /\ pc'[a] # p

\* the setting is absent or empty
UrlAbsent == ~Has(env, WebhookUrlKey) \/ env[WebhookUrlKey] = Empty

Is2xx(r) == r.kind = "response" /\ r.status >= 200 /\ r.status <= 299

QueueOf(w) == IF Has(w, "dataLayer") THEN w.dataLayer ELSE <<>>

\* C1: at most one submission is in flight at a time; a second POST is never
\* outstanding while an earlier attempt has not resolved, also when the
\* second submit event arrived during the first one's validation.
C1_SingleFlight ==
    \A a, b \in Attempts : a # b => ~(InFlight(a) /\ InFlight(b))

\* C2: every attempt answered with a 2xx status goes on to the success path,
\* whose step appends exactly one {event: "form_lead_success"} to
\* window.dataLayer (creating it if absent), shows exactly one success toast
\* and no error toast, and leaves every field of the record empty, whether
\* or not the body parses as JSON; no other step of the workflow touches the
\* queue.
C2_SuccessPath ==
    [][/\ \A a \in Attempts :
            /\ (Leaves(a, "responded") /\ Is2xx(resp[a])) =>
                    pc'[a] = "parsing" /\ UNCHANGED <<window, toasts, record>>
            /\ Leaves(a, "parsing") =>
                    /\ pc'[a] = "idle"
                    /\ Has(window', "dataLayer")
                    /\ window'.dataLayer =
                            Append(QueueOf(window), [event |-> "form_lead_success"])
                    /\ toasts' = Append(toasts, SuccessToast)
                    /\ SuccessToast # ErrorToast
                    /\ \A f \in Fields : record'[f] = Empty
       /\ window' # window => \E a \in Attempts : Leaves(a, "parsing")
      ]_vars

\* a success whose body was no JSON has been handled
C2_Witness ==
    /\ console.level = "log" /\ Has(console, "body") /\ console.body = "Sem resposta JSON"
    /\ toasts # <<>> /\ Last(toasts) = SuccessToast
    /\ Has(window, "dataLayer") /\ Len(window.dataLayer) = 1
    /\ record = defaultValues
    /\ \A a \in Attempts : pc[a] = "idle"

\* C3: when an attempt on a valid record fails (fetch rejected, a non-2xx
\* status, or the setting missing), the step that handles it leaves
\* window.dataLayer and every field of the record as they were and shows
\* exactly one toast, the same error toast for the three causes, and no
\* success toast.
C3_FailurePath ==
    [][\A a \in Attempts :
        (\/ Leaves(a, "responded") /\ ~Is2xx(resp[a])
         \/ Leaves(a, "validating") /\ zodResolver(data[a]) = NoErrors /\ UrlAbsent)
        => /\ pc'[a] = "idle"
           /\ window' = window
           /\ record' = record
           /\ toasts' = Append(toasts, ErrorToast)
           /\ ErrorToast # SuccessToast
      ]_vars

\* a 500 answer has been handled and the record still holds what was entered
C3_Witness ==
    /\ console.level = "error" /\ console.error = ErrStatus(500)
    /\ toasts = <<ErrorToast>>
    /\ ~Has(window, "dataLayer")
    /\ zodResolver(record) = NoErrors
    /\ \A a \in Attempts : pc[a] = "idle"

\* C4: with the setting absent or empty no POST is ever issued, and an
\* attempt on a valid record ends at once with one error toast.
C4_NoFetchWithoutUrl ==
    [][UrlAbsent =>
        /\ \A a \in Attempts : req'[a] = NoReq /\ ~InFlight(a)'
        /\ \A a \in Attempts :
            (Leaves(a, "validating") /\ zodResolver(data[a]) = NoErrors)
            => pc'[a] = "idle" /\ toasts' = Append(toasts, ErrorToast)
      ]_vars

\* the setting is the empty string and an attempt has ended on it
C4_Witness ==
    /\ Has(env, WebhookUrlKey) /\ env[WebhookUrlKey] = Empty
    /\ console.level = "error" /\ console.error = ErrConfig
    /\ toasts = <<ErrorToast>>
    /\ \A a \in Attempts : req[a] = NoReq

\* the record breaks a rule of the schema, field-level or cross-field
BreaksSchema(d) ==
    \/ Len(d.name) < 3 \/ Len(d.name) > 100
    \/ ~emailShape(d.email) \/ Len(d.email) > 255
    \/ ~phoneRegex(d.phone)
    \/ d.projectType = Empty
    \/ Len(d.message) < 20 \/ Len(d.message) > 1000
    \/ (d.projectType = Outros /\ d.otherProjectType = Empty)

\* C5: a submit event on a record that breaks the schema ends in validation:
\* onSubmit does not run, isSubmitting is not set, no POST is issued, no toast
\* is shown, no analytics event is appended; errors of fields are surfaced.
C5_InvalidNeverSubmits ==
    [][\A a \in Attempts :
        (Leaves(a, "validating") /\ BreaksSchema(data[a]))
        => /\ pc'[a] = "idle"
           /\ UNCHANGED <<isSubmitting, req, toasts, window, console, record>>
           /\ errors' # NoErrors
           /\ DOMAIN errors' \subseteq Fields
      ]_vars

\* the cross-field rule alone has stopped a submit
C5_Witness ==
    /\ DOMAIN errors = {"otherProjectType"}
    /\ record.projectType = Outros
    /\ now > 0
    /\ toasts = <<>>
    /\ ~isSubmitting
    /\ \A a \in Attempts : pc[a] = "idle" /\ req[a] = NoReq

\* C6: every step in which onSubmit returns (success, missing setting,
\* network error, non-2xx) leaves isSubmitting false, and isSubmitting is
\* true only while some attempt's network call is unresolved.
C6_SubmittingCleared ==
    [][/\ \A a \in Attempts :
            (\/ Leaves(a, "parsing")
             \/ Leaves(a, "responded") /\ pc'[a] = "idle"
             \/ Leaves(a, "validating") /\ zodResolver(data[a]) = NoErrors
                    /\ pc'[a] = "idle")
            => ~isSubmitting'
       /\ isSubmitting' => \E a \in Attempts : InFlight(a)'
      ]_vars

\* a success and a failure have both returned and the control is enabled
C6_Witness ==
    /\ \E i, j \in 1..Len(toasts) : toasts[i] = SuccessToast /\ toasts[j] = ErrorToast
    /\ ~isSubmitting
    /\ \A a \in Attempts : pc[a] = "idle"

\* the other fields of the candidate pass their rules
OtherFieldsValid(c) ==
    /\ Len(c.name) >= 3 /\ Len(c.name) <= 100
    /\ emailShape(c.email) /\ Len(c.email) <= 255
    /\ phoneRegex(c.phone)
    /\ c.projectType # Empty
    /\ Len(c.message) >= 20 /\ Len(c.message) <= 1000

OtherMissing(c) == c.projectType = Outros /\ ~Truthy(c, "otherProjectType")

\* C7: for a record whose other fields are valid, validation reports an
\* error at otherProjectType exactly when projectType is 'outros' and
\* otherProjectType is empty or absent; in every other case it passes.
C7_OtherProjectTypeRule ==
    (result.ran /\ OtherFieldsValid(cand)) =>
        /\ Has(result.errors, "otherProjectType") <=> OtherMissing(cand)
        /\ OtherMissing(cand) => result.errors = [f \in {"otherProjectType"} |-> MsgOther]
        /\ ~OtherMissing(cand) => result.errors = NoErrors

\* 'outros' with the property absent has been rejected
C7_Witness ==
    /\ result.ran /\ OtherFieldsValid(cand)
    /\ cand.projectType = Outros /\ ~Has(cand, "otherProjectType")
    /\ Has(result.errors, "otherProjectType")

\* C8 as claimed: a projectType outside the enumerated set is rejected with
\* the 'select a project type' error.
C8_EnumEnforced ==
    (result.ran /\ cand.projectType \notin SelectItems) =>
        Has(result.errors, "projectType") /\ result.errors.projectType = MsgProjectType

\* C8 as amended: the projectType rule rejects the empty string only, with
\* the 'select a project type' error; any non-empty string passes it,
\* whether or not it is one of the enumerated values.
C8_NonEmptyOnly ==
    result.ran =>
        /\ Has(result.errors, "projectType") <=> cand.projectType = Empty
        /\ Has(result.errors, "projectType") => result.errors.projectType = MsgProjectType

\* a value outside the enumerated set has passed validation
C8_Witness ==
    /\ result.ran
    /\ cand.projectType # Empty /\ cand.projectType \notin SelectItems
    /\ result.errors = NoErrors

\* the digits of a text, in order
DigitsOf(v) == SelectSeq(v, LAMBDA c : c \in DigitChars)

\* ^\(\d{2}\) \d{4,5}-\d{4}$
MatchesMask(s) ==
    LET k == Len(s) - 10
    IN  /\ k \in {4, 5}
        /\ s[1] = "(" /\ s[2] \in DigitChars /\ s[3] \in DigitChars
        /\ s[4] = ")" /\ s[5] = " "
        /\ \A i \in 6..(5 + k) : s[i] \in DigitChars
        /\ s[6 + k] = "-"
        /\ \A i \in (7 + k)..(10 + k) : s[i] \in DigitChars

\* C9: with d the digits of the input and n their number, the stored text is
\* d for n <= 2; (DD) and the other digits for 3..6; (DD) DDDD- and the other
\* digits for 7..10; (DD) DDDDD-DDDD of the first 11 digits for n >= 11.  It
\* matches the mask for n >= 10 and has no hyphen for n < 7.
C9_FormatPhoneNumber ==
    LET d == DigitsOf(value)
        n == Len(d)
        area == <<"(", d[1], d[2], ")", " ">>
    IN  /\ n <= 2 => formatted = d
        /\ (3 <= n /\ n <= 6) => formatted = area \o SubSeq(d, 3, n)
        /\ (7 <= n /\ n <= 10) =>
                formatted = area \o SubSeq(d, 3, 6) \o <<"-">> \o SubSeq(d, 7, n)
        /\ n >= 11 => formatted = area \o SubSeq(d, 3, 7) \o <<"-">> \o SubSeq(d, 8, 11)
        /\ n >= 10 => MatchesMask(formatted)
        /\ n < 7 => \A i \in 1..Len(formatted) : formatted[i] # "-"

\* more than 11 digits mixed with other characters have been pasted
C9_Witness ==
    /\ Len(DigitsOf(value)) > 11
    /\ Len(value) > Len(DigitsOf(value))
    /\ Len(formatted) = PhoneMaxLength

PayloadFields == {"name", "email", "phone", "projectType", "message", "timestamp", "source"}

\* C10: the body of every POST has exactly the seven fields, the fixed
\* source, and as projectType the record's otherProjectType when the record's
\* projectType is 'outros' and the record's projectType otherwise; the
\* override is then non-empty, and an otherProjectType left over under
\* another projectType is not sent.
C10_Payload ==
    \A a \in Attempts : req[a] # NoReq =>
        LET b == req[a].body
            d == data[a]
        IN  /\ DOMAIN b = PayloadFields
            /\ b.source = "Landing Page 4ME Engenharia"
            /\ b.name = d.name /\ b.email = d.email /\ b.phone = d.phone
            /\ b.message = d.message
            /\ d.projectType = Outros =>
                    b.projectType = d.otherProjectType /\ b.projectType # Empty
            /\ d.projectType # Outros => b.projectType = d.projectType
            /\ b.projectType = Outros => d.otherProjectType = Outros

\* a POST for an 'outros' record is in flight
C10_Witness ==
    \E a \in Attempts :
        /\ pc[a] = "fetching"
        /\ data[a].projectType = Outros
        /\ req[a].body.projectType = data[a].otherProjectType

====
